---- MODULE Spec2Model ----
(***************************************************************************)
(* CPPiler: LL(1) table construction (parser_tables.py), the predictive    *)
(* parser with its terminal classifier and the parse-tree query            *)
(* (predictive_parser.py).                                                 *)
(*                                                                         *)
(* SpecTables       : ParserTables.build_parse_table as a state machine.   *)
(* FairSpecTables   : SpecTables with the fixed-point loops running on.    *)
(* Spec             : PredictiveParser.parse over a bounded family of      *)
(*                    token streams, repeated on the same instance, and    *)
(*                    TreeSearcher queries on the tree.                    *)
(* FairSpec         : Spec with the parse loop running to its end.         *)
(* SpecErrorHandler : ErrorHandler initialised with bounded source texts,  *)
(*                    locating offsets and rendering error contexts.       *)
(***************************************************************************)
EXTENDS Naturals, Sequences, FiniteSets

VARIABLES
  \* ---- ParserTables instance ----
  gid,          \* which grammar the instance holds (self.grammar)
  first_sets,   \* self.first_sets
  follow_sets,  \* self.follow_sets
  parse_table,  \* self.parse_table
  phase,        \* position in build_parse_table
  k,            \* index of the production being visited (0: at the `while changed` test)
  changed,      \* the local `changed` of the running fixed-point loop
  tstage,       \* table fill: which inner loop of the current production is running
  todo,         \* table fill: elements of the set being iterated not yet visited
  conflict,     \* the (non-terminal, terminal) pair named by the raised ValueError
  run,          \* how many times build_parse_table has been called on the instance
  prev,         \* the caller's copy of the previous call's result
  \* ---- PredictiveParser instance and the locals of parse ----
  token_stream,         \* self.token_stream
  current_token_idx,    \* self.current_token_idx (0-based)
  production_sequence,  \* self.production_sequence
  stack,                \* the local deque `stack` (top is the last element)
  node_stack,           \* the local deque `node_stack`, of node indices
  tree,                 \* the ParseTreeNode objects, in creation order; 1 is the root
  terminal,             \* the local `terminal` of the last loop iteration
  pc,                   \* where parse is: in the loop, returned, or raised
  line_positions,       \* self.error_handler.line_positions
  error,                \* the exception parse raised, if any
  parses,               \* how many times parse has been called on the instance
  source_code,          \* self.error_handler.source_code, a sequence of characters
  report,               \* what the last ErrorHandler call returned or raised
  \* ---- TreeSearcher ----
  queried,              \* the identifier passed to find_identifier_definition
  answer                \* what find_identifier_definition returned

pvars == <<token_stream, current_token_idx, production_sequence, stack, node_stack,
           tree, terminal, pc, line_positions, error, parses, source_code, report,
           queried, answer>>

tvars == <<gid, first_sets, follow_sets, parse_table, phase, k, changed,
           tstage, todo, conflict, run, prev>>

\* ---------------------------------------------------------------------
\* Bounds
\* ---------------------------------------------------------------------
MaxRuns == 2

\* Calls of parse on one PredictiveParser instance.
MaxParses == 2

\* Characters of a source text handed to ErrorHandler.initialize_source.
MaxSrcLen == 4

\* Longest statement list of the generated programs.
MaxStmts == 2

\* ---------------------------------------------------------------------
\* Grammar (parser_tables.py:19-83)
\* ---------------------------------------------------------------------
EPS == "ε"

None == "None"

EmptyDict == <<>>

\* ErrorHandler.__init__: self.line_positions = [] (predictive_parser.py:199). parse never
\* calls initialize_source.
NewLinePositions == <<>>

\* ErrorHandler.__init__: self.source_code = "" (predictive_parser.py:198).
NewSourceCode == <<>>

\* No ErrorHandler call has been made.
NoReport == [call |-> None]

\* No exception.
NoError ==
  [kind |-> None, message |-> None, found |-> None, expected |-> {},
   located |-> FALSE, position |-> 0, line |-> 0, column |-> 0]

Terminals ==
  { "#include", "using", "namespace", "std", "int", "float", "main", "while",
    "cin", "cout", "return", "{", "}", "(", ")", ";", ",", "=", "+", "-", "*",
    ">=", "<=", "==", "!=", ">>", "<<", "identifier", "number", "string" }
  \cup {"$"}

NonTerminals ==
  { "Start", "S", "N", "M", "T", "V", "Id", "L", "Z", "Operation",
    "P", "O", "W", "Assign", "Expression", "K", "Loop", "Input",
    "F", "Output", "H", "C" }

\* Insertion order of the keys of self.grammar: the order of grammar.items().
NtOrder ==
  << "Start", "S", "N", "M", "T", "V", "Id", "L", "Z", "Operation",
     "P", "O", "W", "Assign", "Expression", "K", "Loop", "Input",
     "F", "Output", "H", "C" >>

\* Each production is held as prod.split(), the list of its symbols.
Grammar ==
  [ Start      |-> << <<"S", "N", "M">> >>,
    S          |-> << <<"#include", "S">>, <<EPS>> >>,
    N          |-> << <<"using", "namespace", "std", ";">>, <<EPS>> >>,
    M          |-> << <<"int", "main", "(", ")", "{", "T", "V", "}">> >>,
    T          |-> << <<"Id", "T">>, <<"L", "T">>, <<"Loop", "T">>,
                      <<"Input", "T">>, <<"Output", "T">>, <<EPS>> >>,
    V          |-> << <<"return", "0", ";">>, <<EPS>> >>,
    Id         |-> << <<"int", "L">>, <<"float", "L">> >>,
    L          |-> << <<"identifier", "Assign", "Z">> >>,
    Z          |-> << <<",", "identifier", "Assign", "Z">>, <<";">> >>,
    Operation  |-> << <<"number", "P">>, <<"identifier", "P">> >>,
    P          |-> << <<"O", "W", "P">>, <<EPS>> >>,
    O          |-> << <<"+">>, <<"-">>, <<"*">> >>,
    W          |-> << <<"number">>, <<"identifier">> >>,
    Assign     |-> << <<"=", "Operation">>, <<EPS>> >>,
    Expression |-> << <<"Operation", "K", "Operation">> >>,
    K          |-> << <<"==">>, <<">=">>, <<"<=">>, <<"!=">> >>,
    Loop       |-> << <<"while", "(", "Expression", ")", "{", "T", "}">> >>,
    Input      |-> << <<"cin", ">>", "identifier", "F", ";">> >>,
    F          |-> << <<">>", "identifier", "F">>, <<EPS>> >>,
    Output     |-> << <<"cout", "<<", "C", "H", ";">> >>,
    H          |-> << <<"<<", "C", "H">>, <<EPS>> >>,
    C          |-> << <<"number">>, <<"string">>, <<"identifier">> >> ]

\* Grammars a caller can install in the public attribute `grammar` before
\* building: the shipped one, one with two productions of T that start with
\* the same terminals, and one whose nullable H is followed by its own first
\* terminal.
GrammarFirstFirst ==
  [Grammar EXCEPT !["T"] = Append(@, <<"Id", "V">>)]

GrammarFirstFollow ==
  [Grammar EXCEPT !["Output"] = << <<"cout", "<<", "C", "H", "<<", ";">> >>]

GrammarIds == {"fixed", "firstfirst", "firstfollow"}

GrammarOf(id) ==
  CASE id = "fixed" -> Grammar
    [] id = "firstfirst" -> GrammarFirstFirst
    [] id = "firstfollow" -> GrammarFirstFollow

\* grammar.items() flattened: the (nt, prod) pairs in the order the nested
\* `for nt, productions ... for prod in productions` loops visit them.
RECURSIVE ProdListFrom(_, _)
ProdListFrom(g, i) ==
  IF i > Len(NtOrder) THEN <<>>
  ELSE [j \in 1..Len(g[NtOrder[i]]) |-> [nt |-> NtOrder[i], rhs |-> g[NtOrder[i]][j]]]
       \o ProdListFrom(g, i + 1)

ProdList(g) == ProdListFrom(g, 1)

IsTerminal(symbol) == symbol \in Terminals \/ symbol = EPS

\* ---------------------------------------------------------------------
\* compute_first_sets (parser_tables.py:139-175)
\* ---------------------------------------------------------------------
NewFirstSets == [nt \in NonTerminals |-> {}]

\* Faulty variant of FirstScan: stops after the first symbol whether or not it is
\* nullable.
FirstScan_StopAtFirst(fs, nt, symbols, i) ==
  IF IsTerminal(symbols[i]) THEN [fs EXCEPT ![nt] = @ \cup {symbols[i]}]
  ELSE [fs EXCEPT ![nt] = @ \cup (fs[symbols[i]] \ {EPS})]

\* The `for symbol in symbols` loop of one production, updating fs in place.
RECURSIVE FirstScan(_, _, _, _)
FirstScan(fs, nt, symbols, i) ==
  IF i > Len(symbols) THEN
    [fs EXCEPT ![nt] = @ \cup {EPS}]                     \* all_nullable
  ELSE IF IsTerminal(symbols[i]) THEN
    [fs EXCEPT ![nt] = @ \cup {symbols[i]}]              \* add, break
  ELSE
    LET fs2 == [fs EXCEPT ![nt] = @ \cup (fs[symbols[i]] \ {EPS})]
    IN  IF EPS \notin fs2[symbols[i]] THEN fs2           \* break
        ELSE FirstScan(fs2, nt, symbols, i + 1)

\* The body of `for prod in productions` for one production.
FirstVisit(fs, nt, symbols) ==
  IF symbols = <<>> \/ symbols[1] = EPS
  THEN [fs EXCEPT ![nt] = @ \cup {EPS}]
  ELSE FirstScan(fs, nt, symbols, 1)

\* ---------------------------------------------------------------------
\* _compute_first_of_string (parser_tables.py:207-228)
\* ---------------------------------------------------------------------
\* Faulty variant of FirstOfStringScan: no break after a non-terminal that is not
\* nullable.
RECURSIVE FirstOfStringScan_NoBreak(_, _, _)
FirstOfStringScan_NoBreak(fs, symbols, i) ==
  IF i > Len(symbols) THEN {EPS}
  ELSE IF IsTerminal(symbols[i]) THEN {symbols[i]}
  ELSE (fs[symbols[i]] \ {EPS}) \cup FirstOfStringScan_NoBreak(fs, symbols, i + 1)

RECURSIVE FirstOfStringScan(_, _, _)
FirstOfStringScan(fs, symbols, i) ==
  IF i > Len(symbols) THEN {EPS}
  ELSE IF IsTerminal(symbols[i]) THEN {symbols[i]}
  ELSE (fs[symbols[i]] \ {EPS})
       \cup (IF EPS \notin fs[symbols[i]] THEN {}
             ELSE FirstOfStringScan(fs, symbols, i + 1))

FirstOfString(fs, symbols) ==
  IF symbols = <<>> THEN {EPS} ELSE FirstOfStringScan(fs, symbols, 1)

\* ---------------------------------------------------------------------
\* compute_follow_sets (parser_tables.py:177-205)
\* ---------------------------------------------------------------------
NewFollowSets == [nt \in NonTerminals |-> IF nt = "Start" THEN {"$"} ELSE {}]

\* Faulty variant of FollowScan: FOLLOW(nt) is never added to FOLLOW(symbol).
RECURSIVE FollowScan_NoInherit(_, _, _, _, _)
FollowScan_NoInherit(fs, fo, nt, symbols, i) ==
  IF i > Len(symbols) THEN fo
  ELSE IF symbols[i] \notin NonTerminals THEN FollowScan_NoInherit(fs, fo, nt, symbols, i + 1)
  ELSE
    LET first_of_trailer == FirstOfString(fs, SubSeq(symbols, i + 1, Len(symbols)))
    IN  FollowScan_NoInherit(fs,
          [fo EXCEPT ![symbols[i]] = @ \cup (first_of_trailer \ {EPS})], nt, symbols, i + 1)

\* The `for i, symbol in enumerate(symbols)` loop of one production of nt,
\* updating fo in place; fs is self.first_sets.
RECURSIVE FollowScan(_, _, _, _, _)
FollowScan(fs, fo, nt, symbols, i) ==
  IF i > Len(symbols) THEN fo
  ELSE IF symbols[i] \notin NonTerminals THEN FollowScan(fs, fo, nt, symbols, i + 1)
  ELSE
    LET trailer == SubSeq(symbols, i + 1, Len(symbols))
        first_of_trailer == FirstOfString(fs, trailer)
        fo2 == [fo EXCEPT ![symbols[i]] = @ \cup (first_of_trailer \ {EPS})]
        fo3 == IF EPS \in first_of_trailer
               THEN [fo2 EXCEPT ![symbols[i]] = @ \cup fo2[nt]]
               ELSE fo2
    IN  FollowScan(fs, fo3, nt, symbols, i + 1)

FollowVisit(fs, fo, nt, symbols) == FollowScan(fs, fo, nt, symbols, 1)

\* ---------------------------------------------------------------------
\* build_parse_table (parser_tables.py:230-257)
\* ---------------------------------------------------------------------
\* An empty cell: the empty string '', which splits into no symbols.
NoEntry == <<>>

\* Faulty variant of NewParseTable: the table is created only when there is none yet.
NewParseTable_KeepExisting ==
  IF parse_table = EmptyDict
  THEN [nt \in NonTerminals |-> [t \in Terminals |-> NoEntry]]
  ELSE parse_table

NewParseTable == [nt \in NonTerminals |-> [t \in Terminals |-> NoEntry]]

\* Faulty variant of CellTaken: the conflict test is missing.
CellTaken_Never(table, nt, term) == FALSE

\* `if self.parse_table[nt][terminal]`: the cell already holds a production.
CellTaken(table, nt, term) == table[nt][term] # NoEntry

\* Faulty variant of ProdEntry: the first inner loop stores the epsilon marker, as
\* the second does.
ProdEntry_Eps(rhs) == <<EPS>>

\* What the first inner loop stores: the production itself.
ProdEntry(rhs) == rhs

\* What the second inner loop stores: the epsilon marker.
EpsEntry == <<EPS>>

Result == [first |-> first_sets, follow |-> follow_sets,
           table |-> parse_table, outcome |-> phase]

InitTables ==
  /\ gid \in GrammarIds
  /\ first_sets = EmptyDict
  /\ follow_sets = EmptyDict
  /\ parse_table = EmptyDict
  /\ phase = "new"
  /\ k = 0
  /\ changed = FALSE
  /\ tstage = "none"
  /\ todo = {}
  /\ conflict = None
  /\ run = 0
  /\ prev = None
  /\ token_stream = <<>>
  /\ current_token_idx = 0
  /\ production_sequence = <<>>
  /\ stack = <<>>
  /\ node_stack = <<>>
  /\ tree = <<>>
  /\ terminal = None
  /\ pc = "idle"
  /\ line_positions = NewLinePositions
  /\ error = NoError
  /\ parses = 0
  /\ source_code = NewSourceCode
  /\ report = NoReport
  /\ queried = None
  /\ answer = None

N_prods == Len(ProdList(GrammarOf(gid)))

CurProd == ProdList(GrammarOf(gid))[k]

\* A caller calls build_parse_table (again): compute_first_sets starts
\* (lines 141-143). Only first_sets is created anew here.
Build ==
  /\ phase \in {"new", "done", "conflict"}
  /\ run < MaxRuns
  /\ run' = run + 1
  /\ prev' = IF phase = "new" THEN None ELSE Result
  /\ first_sets' = NewFirstSets
  /\ changed' = TRUE
  /\ phase' = "first"
  /\ k' = 0
  /\ conflict' = None
  /\ UNCHANGED pvars
  /\ UNCHANGED <<gid, follow_sets, parse_table, tstage, todo>>

\* Faulty variant of PassBegin: the `changed = False` of lines 145 and 184 is
\* missing.
PassBegin_KeepChanged ==
  /\ phase \in {"first", "follow"}
  /\ k = 0
  /\ changed
  /\ changed' = changed
  /\ k' = 1
  /\ UNCHANGED pvars
  /\ UNCHANGED <<gid, first_sets, follow_sets, parse_table, phase, tstage, todo,
                 conflict, run, prev>>

\* `while changed:` taken, `changed = False` (lines 144-145 and 183-184).
PassBegin ==
  /\ phase \in {"first", "follow"}
  /\ k = 0
  /\ changed
  /\ changed' = FALSE
  /\ k' = 1
  /\ UNCHANGED pvars
  /\ UNCHANGED <<gid, first_sets, follow_sets, parse_table, phase, tstage, todo,
                 conflict, run, prev>>

\* One production of the FIRST pass (lines 147-175).
FirstStep ==
  /\ phase = "first"
  /\ k >= 1
  /\ first_sets' = FirstVisit(first_sets, CurProd.nt, CurProd.rhs)
  /\ changed' = (changed \/ first_sets' # first_sets)
  /\ k' = IF k = N_prods THEN 0 ELSE k + 1
  /\ UNCHANGED pvars
  /\ UNCHANGED <<gid, follow_sets, parse_table, phase, tstage, todo, conflict, run, prev>>

\* `while changed` of compute_first_sets fails; compute_follow_sets starts
\* (lines 179-182).
FirstDone ==
  /\ phase = "first"
  /\ k = 0
  /\ ~changed
  /\ follow_sets' = NewFollowSets
  /\ changed' = TRUE
  /\ phase' = "follow"
  /\ UNCHANGED pvars
  /\ UNCHANGED <<gid, first_sets, parse_table, k, tstage, todo, conflict, run, prev>>

\* One production of the FOLLOW pass (lines 186-205).
FollowStep ==
  /\ phase = "follow"
  /\ k >= 1
  /\ follow_sets' = FollowVisit(first_sets, follow_sets, CurProd.nt, CurProd.rhs)
  /\ changed' = (changed \/ follow_sets' # follow_sets)
  /\ k' = IF k = N_prods THEN 0 ELSE k + 1
  /\ UNCHANGED pvars
  /\ UNCHANGED <<gid, first_sets, parse_table, phase, tstage, todo, conflict, run, prev>>

\* The set the first inner loop of production i iterates (lines 242-244).
FirstLoopSet(i) ==
  FirstOfString(first_sets, ProdList(GrammarOf(gid))[i].rhs) \ {EPS}

\* `while changed` of compute_follow_sets fails; the table is created and the
\* fill reaches the first production (lines 235-244).
FollowDone ==
  /\ phase = "follow"
  /\ k = 0
  /\ ~changed
  /\ parse_table' = NewParseTable
  /\ phase' = "table"
  /\ k' = 1
  /\ tstage' = "first"
  /\ todo' = FirstLoopSet(1)
  /\ UNCHANGED pvars
  /\ UNCHANGED <<gid, first_sets, follow_sets, changed, conflict, run, prev>>

\* One iteration of either inner loop on a free cell (lines 249, 257). The
\* loops iterate Python sets, so the element visited next is any one left.
TableWrite ==
  /\ phase = "table"
  /\ \E term \in todo :
       /\ ~CellTaken(parse_table, CurProd.nt, term)
       /\ parse_table' = [parse_table EXCEPT ![CurProd.nt][term] =
                            IF tstage = "first" THEN ProdEntry(CurProd.rhs) ELSE EpsEntry]
       /\ todo' = todo \ {term}
  /\ UNCHANGED pvars
  /\ UNCHANGED <<gid, first_sets, follow_sets, phase, k, changed, tstage, conflict, run, prev>>

\* One iteration of either inner loop on a taken cell: raise (lines 245-248,
\* 253-256).
TableConflict ==
  /\ phase = "table"
  /\ \E term \in todo :
       /\ CellTaken(parse_table, CurProd.nt, term)
       /\ conflict' = <<CurProd.nt, term>>
  /\ phase' = "conflict"
  /\ UNCHANGED pvars
  /\ UNCHANGED <<gid, first_sets, follow_sets, parse_table, k, changed, tstage, todo, run, prev>>

\* The first inner loop is exhausted and 'ε' \in first_of_prod (lines 251-252).
TableToFollowLoop ==
  /\ phase = "table"
  /\ tstage = "first"
  /\ todo = {}
  /\ EPS \in FirstOfString(first_sets, CurProd.rhs)
  /\ tstage' = "follow"
  /\ todo' = follow_sets[CurProd.nt]
  /\ UNCHANGED pvars
  /\ UNCHANGED <<gid, first_sets, follow_sets, parse_table, phase, k, changed, conflict, run, prev>>

\* The production is finished: the next one, or the end of the fill.
TableNextProd ==
  /\ phase = "table"
  /\ todo = {}
  /\ tstage = "first" => EPS \notin FirstOfString(first_sets, CurProd.rhs)
  /\ IF k = N_prods
     THEN /\ phase' = "done"
          /\ tstage' = "none"
          /\ UNCHANGED <<k, todo>>
     ELSE /\ k' = k + 1
          /\ tstage' = "first"
          /\ todo' = FirstLoopSet(k + 1)
          /\ UNCHANGED phase
  /\ UNCHANGED pvars
  /\ UNCHANGED <<gid, first_sets, follow_sets, parse_table, changed, conflict, run, prev>>

NextTables ==
  \/ Build
  \/ PassBegin
  \/ FirstStep
  \/ FirstDone
  \/ FollowStep
  \/ FollowDone
  \/ TableWrite
  \/ TableConflict
  \/ TableToFollowLoop
  \/ TableNextProd

vars == <<tvars, pvars>>

SpecTables == InitTables /\ [][NextTables]_vars

\* One step of the two `while changed` loops.
FixedPointStep ==
  \/ PassBegin
  \/ FirstStep
  \/ FirstDone
  \/ FollowStep
  \/ FollowDone

\* build_parse_table is sequential code: a call that has been entered keeps
\* running.
FairSpecTables == SpecTables /\ WF_vars(FixedPointStep)

\* ---------------------------------------------------------------------
\* FIRST and FOLLOW by their definitions on derivations, for comparison
\* with what the fixed-point loops compute.
\* ---------------------------------------------------------------------
AllSymbolsIn(rhs, S) == \A i \in 1..Len(rhs) : rhs[i] \in S

\* Non-terminals that derive the empty string.
RECURSIVE NullableFrom(_, _)
NullableFrom(g, S) ==
  LET S2 == S \cup { A \in NonTerminals :
                       \E j \in 1..Len(g[A]) : AllSymbolsIn(g[A][j], S \cup {EPS}) }
  IN  IF S2 = S THEN S ELSE NullableFrom(g, S2)

Nullable(g) == NullableFrom(g, {})

\* The symbols of a string that can stand first once the nullable symbols
\* before them have vanished (nl: the nullable non-terminals).
Leading(nl, symbols) ==
  { symbols[i] : i \in { i \in 1..Len(symbols) :
                           \A h \in 1..(i - 1) : symbols[h] \in nl \cup {EPS} } } \ {EPS}

Begins(g, nl, A) == UNION { Leading(nl, g[A][j]) : j \in 1..Len(g[A]) }

RECURSIVE BeginsClosure(_, _, _)
BeginsClosure(g, nl, S) ==
  LET S2 == S \cup UNION { Begins(g, nl, B) : B \in S \cap NonTerminals }
  IN  IF S2 = S THEN S ELSE BeginsClosure(g, nl, S2)

\* Terminals that begin a string derived from the symbols, and EPS when the
\* whole string derives the empty string.
DerivFirstOfString(g, symbols) ==
  LET nl == Nullable(g)
  IN  (BeginsClosure(g, nl, Leading(nl, symbols)) \cap Terminals)
      \cup (IF AllSymbolsIn(symbols, nl \cup {EPS}) THEN {EPS} ELSE {})

DerivFirst(g) == [A \in NonTerminals |-> DerivFirstOfString(g, <<A>>)]

\* The occurrences of non-terminals in production bodies: <<p, i>> with
\* symbol i of production p a non-terminal.
Occurrences(g) ==
  LET pl == ProdList(g)
  IN  { o \in UNION { { <<p, i>> : i \in 1..Len(pl[p].rhs) } : p \in 1..Len(pl) } :
          pl[o[1]].rhs[o[2]] \in NonTerminals }

OccSymbol(g, o) == ProdList(g)[o[1]].rhs[o[2]]

OccHead(g, o) == ProdList(g)[o[1]].nt

OccTrailer(g, o) ==
  LET rhs == ProdList(g)[o[1]].rhs IN SubSeq(rhs, o[2] + 1, Len(rhs))

\* Terminals that follow B immediately in a production body.
DirectFollow(g, B) ==
  (IF B = "Start" THEN {"$"} ELSE {})
  \cup UNION { DerivFirstOfString(g, OccTrailer(g, o)) \ {EPS} :
               o \in { o \in Occurrences(g) : OccSymbol(g, o) = B } }

\* Non-terminals A with a production A -> alpha B beta, beta nullable.
EndsIn(g, B) ==
  { OccHead(g, o) : o \in { o \in Occurrences(g) :
        /\ OccSymbol(g, o) = B
        /\ EPS \in DerivFirstOfString(g, OccTrailer(g, o)) } }

RECURSIVE EndsInClosure(_, _)
EndsInClosure(g, S) ==
  LET S2 == S \cup UNION { EndsIn(g, B) : B \in S }
  IN  IF S2 = S THEN S ELSE EndsInClosure(g, S2)

DerivFollow(g) ==
  [B \in NonTerminals |-> UNION { DirectFollow(g, A) : A \in EndsInClosure(g, {B}) }]

\* ---------------------------------------------------------------------
\* Claims about table construction (checked under SpecTables)
\* ---------------------------------------------------------------------

\* C2: build_parse_table on the fixed grammar raises no conflict: the fill
\* never finds a cell taken.
C2_NoConflictOnFixedGrammar ==
  gid = "fixed" => (phase # "conflict" /\ conflict = None)

C2_Witness == gid = "fixed" /\ phase = "done" /\ run = 1

\* C3: in a completed table every non-empty cell table[A][t] holds either a
\* production of A whose FIRST set without epsilon contains t, or the epsilon
\* marker with t in FOLLOW(A).
C3_TableCellsJustified ==
  phase = "done" =>
    \A A \in NonTerminals : \A t \in Terminals :
      parse_table[A][t] # NoEntry =>
        \/ /\ \E j \in 1..Len(GrammarOf(gid)[A]) : GrammarOf(gid)[A][j] = parse_table[A][t]
           /\ t \in DerivFirstOfString(GrammarOf(gid), parse_table[A][t]) \ {EPS}
        \/ /\ parse_table[A][t] = <<EPS>>
           /\ t \in DerivFollow(GrammarOf(gid))[A]

C3_Witness ==
  /\ phase = "done"
  /\ parse_table["T"]["while"] = <<"Loop", "T">>
  /\ parse_table["P"][")"] = <<EPS>>

FirstFinished == phase = "first" /\ k = 0 /\ ~changed

FollowFinished == phase = "follow" /\ k = 0 /\ ~changed

\* C4: when compute_first_sets finishes, FIRST(A) is exactly the set of
\* terminals that can begin a derivation of A, plus epsilon exactly when A
\* is nullable.
C4_FirstIsLeastFixedPoint ==
  FirstFinished => first_sets = DerivFirst(GrammarOf(gid))

C4_Witness ==
  /\ FirstFinished
  /\ first_sets["Start"] = {"#include", "using", "int"}
  /\ EPS \in first_sets["T"]
  /\ "while" \in first_sets["T"]

\* C5: when compute_follow_sets finishes, FOLLOW(Start) contains $; for every
\* occurrence A -> alpha B beta, FIRST(beta) without epsilon is in FOLLOW(B)
\* and, beta being empty or nullable, FOLLOW(A) is in FOLLOW(B); the sets
\* are the least such family and none contains epsilon.
C5_FollowIsLeastClosedFamily ==
  FollowFinished =>
    LET g == GrammarOf(gid) IN
    /\ "$" \in follow_sets["Start"]
    /\ \A o \in Occurrences(g) :
         LET first_beta == DerivFirstOfString(g, OccTrailer(g, o)) IN
         /\ (first_beta \ {EPS}) \subseteq follow_sets[OccSymbol(g, o)]
         /\ EPS \in first_beta => follow_sets[OccHead(g, o)] \subseteq follow_sets[OccSymbol(g, o)]
    /\ follow_sets = DerivFollow(g)
    /\ \A A \in NonTerminals : EPS \notin follow_sets[A]

C5_Witness ==
  /\ FollowFinished
  /\ follow_sets["T"] = {"return", "}"}
  /\ ")" \in follow_sets["P"]

\* C6: a second call of build_parse_table ends as the first did, with the
\* same FIRST sets and FOLLOW sets and, when it completes, the same table,
\* whichever order the set iterations of the fill take.
C6_RebuildIdentical ==
  (run >= 2 /\ phase \in {"done", "conflict"}) =>
    /\ prev.outcome = phase
    /\ prev.first = first_sets
    /\ prev.follow = follow_sets
    /\ phase = "done" => prev.table = parse_table

C6_Witness == run = 2 /\ phase = "done" /\ prev.table = parse_table

\* C7: during the fill a cell that holds a production is never written
\* again; the step that finds the cell of the visited (A, t) taken writes
\* nothing and ends the construction naming that pair.
C7_CellNeverOverwritten ==
  [][ phase = "table" =>
        /\ \A A \in NonTerminals : \A t \in Terminals :
             parse_table[A][t] # NoEntry => parse_table'[A][t] = parse_table[A][t]
        /\ phase' = "conflict" =>
             /\ parse_table' = parse_table
             /\ conflict'[1] = CurProd.nt
             /\ conflict'[2] \in todo
             /\ parse_table[conflict'[1]][conflict'[2]] # NoEntry ]_vars

C7_Witness ==
  /\ phase = "conflict"
  /\ conflict = <<"T", "float">>
  /\ parse_table["T"]["float"] = <<"Id", "T">>

\* =====================================================================
\* The parse table the parser is given: build_parse_table run to its end
\* on the shipped grammar (main.py:107-115).
\* =====================================================================

\* One pass of `for nt, productions ... for prod` of compute_first_sets.
RECURSIVE FirstPass(_, _, _)
FirstPass(fs, pl, i) ==
  IF i > Len(pl) THEN fs
  ELSE LET fs2 == FirstVisit(fs, pl[i].nt, pl[i].rhs)
       IN  IF fs2 = fs THEN FirstPass(fs, pl, i + 1) ELSE FirstPass(fs2, pl, i + 1)

\* `while changed` of compute_first_sets.
RECURSIVE FirstLoop(_, _)
FirstLoop(fs, pl) ==
  LET fs2 == FirstPass(fs, pl, 1) IN IF fs2 = fs THEN fs ELSE FirstLoop(fs2, pl)

ComputeFirstSets(g) == FirstLoop(NewFirstSets, ProdList(g))

\* One pass of compute_follow_sets.
RECURSIVE FollowPass(_, _, _, _)
FollowPass(fs, fo, pl, i) ==
  IF i > Len(pl) THEN fo
  ELSE LET fo2 == FollowVisit(fs, fo, pl[i].nt, pl[i].rhs)
       IN  IF fo2 = fo THEN FollowPass(fs, fo, pl, i + 1) ELSE FollowPass(fs, fo2, pl, i + 1)

\* `while changed` of compute_follow_sets.
RECURSIVE FollowLoop(_, _, _)
FollowLoop(fs, fo, pl) ==
  LET fo2 == FollowPass(fs, fo, pl, 1) IN IF fo2 = fo THEN fo ELSE FollowLoop(fs, fo2, pl)

ComputeFollowSets(g) == FollowLoop(ComputeFirstSets(g), NewFollowSets, ProdList(g))

\* The fill of build_parse_table for a grammar without conflicts.
RECURSIVE FillFrom(_, _, _, _, _)
FillFrom(table, fs, fo, pl, i) ==
  IF i > Len(pl) THEN table
  ELSE
    LET first_of_prod == FirstOfString(fs, pl[i].rhs)
        row == [t \in Terminals |->
                  IF t \in first_of_prod \ {EPS} THEN ProdEntry(pl[i].rhs)
                  ELSE IF EPS \in first_of_prod /\ t \in fo[pl[i].nt] THEN EpsEntry
                  ELSE table[pl[i].nt][t]]
    IN  IF row = table[pl[i].nt] THEN FillFrom(table, fs, fo, pl, i + 1)
        ELSE FillFrom([table EXCEPT ![pl[i].nt] = row], fs, fo, pl, i + 1)

BuiltParseTable ==
  FillFrom(NewParseTable, ComputeFirstSets(Grammar), ComputeFollowSets(Grammar),
           ProdList(Grammar), 1)

BuiltFirstSets == ComputeFirstSets(Grammar)

BuiltFollowSets == ComputeFollowSets(Grammar)

\* get_parse_table_entry (parser_tables.py:259-265), for a terminal that is
\* a column of the table.
GetParseTableEntry(non_terminal, term) == BuiltParseTable[non_terminal][term]

\* The state machine of SpecTables ends with the table the parser is given.
BuiltTableAgrees ==
  (gid = "fixed" /\ phase = "done") =>
     /\ parse_table = BuiltParseTable
     /\ first_sets = BuiltFirstSets
     /\ follow_sets = BuiltFollowSets

\* =====================================================================
\* Token streams
\* =====================================================================
RW(v) == [type |-> "reservedword", value |-> v]

SY(v) == [type |-> "symbol", value |-> v]

ID(v) == [type |-> "identifier", value |-> v]

NUM(v) == [type |-> "number", value |-> v]

STR(v) == [type |-> "string", value |-> v]

\* The end token main appends (main.py:150).
EndToken == [type |-> "$", value |-> "$"]

\* The tokens of main's test_code as LexicalAnalyzer.tokenize returns them
\* (main.py:58-70), with the end token.
ReferenceProgram ==
  << RW("#include"), SY("<"), RW("iostream"), SY(">"),
     RW("using"), RW("namespace"), RW("std"), SY(";"),
     RW("int"), RW("main"), SY("("), SY(")"), SY("{"),
     RW("int"), ID("x"), SY(";"),
     RW("int"), ID("s"), SY("="), NUM("0"), SY(","), ID("t"), SY("="), NUM("10"), SY(";"),
     RW("while"), SY("("), ID("t"), SY(">="), NUM("0"), SY(")"), SY("{"),
     RW("cin"), SY(">>"), ID("x"), SY(";"),
     ID("t"), SY("="), ID("t"), SY("-"), NUM("1"), SY(";"),
     ID("s"), SY("="), ID("s"), SY("+"), ID("x"), SY(";"),
     SY("}"),
     RW("cout"), SY("<<"), STR("\"sum=\""), SY("<<"), ID("s"), SY(";"),
     RW("return"), NUM("0"), SY(";"),
     SY("}"), EndToken >>

\* The reference program without the three tokens `< iostream >`.
ReferenceNoLibName == <<ReferenceProgram[1]>> \o SubSeq(ReferenceProgram, 5, Len(ReferenceProgram))

\* ... and also without `return 0 ;`.
ReferenceNoReturn ==
  SubSeq(ReferenceNoLibName, 1, 52) \o SubSeq(ReferenceNoLibName, 56, Len(ReferenceNoLibName))

\* The reference program without the `;` that closes `int x`.
ReferenceMissingSemicolon ==
  SubSeq(ReferenceProgram, 1, 15) \o SubSeq(ReferenceProgram, 17, Len(ReferenceProgram))

\* ... and also without `< iostream >`.
ReferenceNoLibNameMissingSemicolon ==
  SubSeq(ReferenceNoLibName, 1, 12) \o SubSeq(ReferenceNoLibName, 14, Len(ReferenceNoLibName))

\* Statements of the generated programs.
Statements ==
  { << RW("int"), ID("x"), SY(";") >>,
    << RW("float"), ID("x"), SY(";") >>,
    << RW("int"), ID("y"), SY(","), ID("x"), SY(";") >>,
    << RW("float"), ID("y"), SY("="), ID("x"), SY("+"), NUM("1"), SY(";") >>,
    << ID("x"), SY("="), NUM("1"), SY(","), ID("w"), SY(";") >>,
    << RW("while"), SY("("), ID("w"), SY(">="), ID("y"), SY(")"), SY("{"),
       RW("float"), ID("x"), SY(";"), SY("}") >>,
    << RW("cout"), SY("<<"), ID("y"), SY(";") >> }

RECURSIVE Bodies(_)
Bodies(n) ==
  IF n = 0 THEN { <<>> }
  ELSE LET B == Bodies(n - 1) IN B \cup { b \o st : b \in B, st \in Statements }

\* What may stand before `int main`.
Prefixes ==
  { <<>>,
    << RW("#include") >>,
    << RW("#include"), RW("#include") >>,
    << RW("#include"), RW("using"), RW("namespace"), RW("std"), SY(";") >>,
    << RW("#include"), SY("<"), RW("iostream"), SY(">") >>,
    << SY("#"), RW("include") >>,
    << SY("#"), RW("using"), RW("namespace"), RW("std"), SY(";") >> }

Returns == { <<>>, << RW("return"), NUM("0"), SY(";") >> }

MainOf(body, ret) ==
  << RW("int"), RW("main"), SY("("), SY(")"), SY("{") >> \o body \o ret \o << SY("}") >>

\* Streams with a syntax error, and streams that lack the end token.
BrokenPrograms ==
  { MainOf(<< RW("int"), ID("x"), RW("int"), ID("y"), SY(";") >>, <<>>) \o <<EndToken>>,
    MainOf(<< RW("cout"), STR("\"sum=\""), SY("<<"), ID("s"), SY(";") >>, <<>>) \o <<EndToken>>,
    MainOf(<< RW("int"), ID("x"), SY(";") >>, <<>>),
    << RW("int"), RW("main"), SY("("), SY(")"), SY("{"), RW("int"), ID("x") >>,
    << RW("int"), SY("<"), RW("iostream"), SY(">"), RW("main"), EndToken >>,
    <<>> }

Programs ==
  { MainOf(b, <<>>) \o <<EndToken>> : b \in Bodies(MaxStmts) }
  \cup { p \o MainOf(b, r) \o <<EndToken>> : p \in Prefixes, b \in Bodies(1), r \in Returns }
  \cup { ReferenceProgram, ReferenceNoLibName, ReferenceNoReturn,
         ReferenceMissingSemicolon, ReferenceNoLibNameMissingSemicolon }
  \cup BrokenPrograms

\* Identifiers asked of the tree.
QueryIds == { "x", "y", "w", "s", "zzz" }

\* =====================================================================
\* PredictiveParser.get_terminal_symbol (predictive_parser.py:40-96)
\* =====================================================================

\* self.token_stream[i], i counted from 0.
TokenAt(ts, i) == ts[i + 1]

\* The terminal returned (None: the skip signal) and self.current_token_idx
\* as the call leaves it.
GetTerminalSymbol(ts, idx) ==
  LET tok == TokenAt(ts, idx)
      next_idx == idx + 1
  IN
  IF tok.type = "symbol" /\ tok.value = "#" THEN
    IF /\ next_idx < Len(ts)
       /\ TokenAt(ts, next_idx).type = "reservedword"
       /\ TokenAt(ts, next_idx).value = "include"
    THEN [terminal |-> "#include", idx |-> idx + 1]
    ELSE [terminal |-> None, idx |-> idx]
  ELSE IF tok.type = "symbol" THEN
    IF /\ tok.value = "<"
       /\ idx >= 1
       /\ next_idx < Len(ts) /\ next_idx + 1 < Len(ts)
       /\ \/ TokenAt(ts, next_idx).value = "iostream"
          \/ TokenAt(ts, next_idx).type = "identifier"
       /\ TokenAt(ts, next_idx + 1).type = "symbol"
       /\ TokenAt(ts, next_idx + 1).value = ">"
    THEN [terminal |-> "<LibName>", idx |-> idx + 2]
    ELSE IF tok.value \in {"<<", ">>"} THEN [terminal |-> tok.value, idx |-> idx]
    ELSE IF tok.value \in {"<=", ">=", "==", "!="} THEN [terminal |-> tok.value, idx |-> idx]
    ELSE IF /\ tok.value \in {"<", ">"}
            /\ next_idx < Len(ts)
            /\ TokenAt(ts, next_idx).type = "symbol"
            /\ TokenAt(ts, next_idx).value = tok.value
    THEN [terminal |-> None, idx |-> idx]
    ELSE [terminal |-> tok.value, idx |-> idx]
  ELSE IF tok.type \in {"string", "number", "identifier"} THEN
    [terminal |-> tok.type, idx |-> idx]
  ELSE [terminal |-> tok.value, idx |-> idx]

\* The tokens LexicalAnalyzer.tokenize can emit (lexical_analyzer.py:18-25),
\* with one or two literals for each open class, and the end token of main.
ReservedWords ==
  { "#include", "int", "float", "void", "return", "if", "while", "cin", "cout",
    "continue", "break", "using", "iostream", "namespace", "std", "main" }

Symbols ==
  { "<<", ">>", "<=", ">=", "==", "!=", "(", ")", "[", "]", ",", ";", "+", "-",
    "*", "/", "=", "||", "{", "}", "<", ">" }

LexerTokens ==
  { RW(v) : v \in ReservedWords } \cup { SY(v) : v \in Symbols }
  \cup { ID("x"), ID("s"), NUM("0"), NUM("10"), STR("\"sum=\""), EndToken }

\* =====================================================================
\* Token positions (main.py:145-150) and ErrorHandler
\* (predictive_parser.py:195-268)
\* =====================================================================

\* The third component of token i (counted from 0) of the stream main builds:
\* current_pos starts at 0 and grows by len(value) + 1 per token.
RECURSIVE TokenPosition(_, _)
TokenPosition(ts, i) ==
  IF i = 0 THEN 0 ELSE TokenPosition(ts, i - 1) + Len(ts[i].value) + 1

\* Faulty variant of GetLineNumber: `position <= start_pos` at line 214.
GetLineNumber_AtOrBefore(lp, position) ==
  LET later == { i \in 1..Len(lp) : position <= lp[i] }
  IN  IF later # {}
      THEN (CHOOSE i \in later : \A j \in later : i <= j) - 1
      ELSE Len(lp)

\* get_line_number (lines 211-216).
GetLineNumber(lp, position) ==
  LET later == { i \in 1..Len(lp) : position < lp[i] }
  IN  IF later # {}
      THEN (CHOOSE i \in later : \A j \in later : i <= j) - 1
      ELSE Len(lp)

\* Whether self.line_positions[line_num - 1] of get_column_number (line 221)
\* raises IndexError: index -1 (line_num = 0) of an empty list.
ColumnIndexError(lp, position) ==
  IF GetLineNumber(lp, position) = 0 THEN Len(lp) = 0
  ELSE GetLineNumber(lp, position) > Len(lp)

\* get_column_number (lines 218-222) where it does not raise; index -1 is the
\* last element.
GetColumnNumber(lp, position) ==
  LET line_num == GetLineNumber(lp, position)
      line_start == IF line_num = 0 THEN lp[Len(lp)] ELSE lp[line_num]
  IN  position + 1 - line_start

\* handle_syntax_error (lines 236-244) with format_error (lines 246-268):
\* the exception that leaves the call. `one_of` is isinstance(expected_value,
\* list).
HandleSyntaxError(lp, token_value, expected_value, one_of, position) ==
  IF ColumnIndexError(lp, position)
  THEN [kind |-> "IndexError", message |-> "list index out of range",
        found |-> None, expected |-> {},
        located |-> FALSE, position |-> 0, line |-> 0, column |-> 0]
  ELSE [kind |-> "SyntaxError",
        message |-> IF one_of THEN "Unexpected. Expected one of" ELSE "Expected, found",
        found |-> token_value, expected |-> expected_value,
        located |-> TRUE, position |-> position,
        line |-> GetLineNumber(lp, position),
        column |-> GetColumnNumber(lp, position)]

\* The ValueError of get_parse_table_entry (parser_tables.py:263-264).
UnknownTerminalError ==
  [kind |-> "ValueError", message |-> "Unknown terminal",
   found |-> None, expected |-> {},
   located |-> FALSE, position |-> 0, line |-> 0, column |-> 0]

\* _get_parsing_context (predictive_parser.py:158-166), as a set.
GetParsingContext(non_terminal) ==
  { t \in Terminals : parse_table[non_terminal][t] # NoEntry }

\* =====================================================================
\* PredictiveParser.parse (predictive_parser.py:98-156)
\* =====================================================================
\* Faulty variant of Reverse: the symbols are taken in production order.
Reverse_InOrder(sq) == sq

Reverse(sq) == [i \in 1..Len(sq) |-> sq[Len(sq) + 1 - i]]

Pop(sq) == SubSeq(sq, 1, Len(sq) - 1)

Top(sq) == sq[Len(sq)]

\* ParseTreeNode(value, [], parent); parent 0 is None.
NewNode(value, parent) ==
  [value |-> value, children |-> <<>>, parent |-> parent,
   token_type |-> None, token_value |-> None]

\* Lines 100-106: the state in which the loop is entered.
InitParse ==
  /\ token_stream \in Programs
  /\ current_token_idx = 0
  /\ production_sequence = <<>>
  /\ tree = << NewNode("Start", 0) >>
  /\ stack = << "$", "Start" >>
  /\ node_stack = << 1 >>
  /\ terminal = None
  /\ pc = "loop"
  /\ line_positions = NewLinePositions
  /\ error = NoError
  /\ parses = 1
  /\ source_code = NewSourceCode
  /\ report = NoReport
  /\ queried = None
  /\ answer = None
  /\ gid = "fixed"
  /\ first_sets = BuiltFirstSets
  /\ follow_sets = BuiltFollowSets
  /\ parse_table = BuiltParseTable
  /\ phase = "done"
  /\ k = 0
  /\ changed = FALSE
  /\ tstage = "none"
  /\ todo = {}
  /\ conflict = None
  /\ run = 1
  /\ prev = None

\* The loop condition of line 108.
LoopCondition == stack # <<>> /\ current_token_idx < Len(token_stream)

\* Line 111, evaluated in the current state.
Classified == GetTerminalSymbol(token_stream, current_token_idx)

\* `top not in self.parser_tables.grammar` (line 126).
InGrammar(symbol) == symbol \in DOMAIN Grammar

\* Faulty variant of Skip: the `self.current_token_idx += 1` of line 114 is
\* missing.
Skip_NoAdvance ==
  /\ pc = "loop" /\ LoopCondition
  /\ Classified.terminal = None
  /\ terminal' = None
  /\ current_token_idx' = Classified.idx
  /\ UNCHANGED <<token_stream, production_sequence, stack, node_stack, tree, pc, queried, answer>>
  /\ UNCHANGED <<line_positions, error>>
  /\ UNCHANGED <<parses, source_code, report>>
  /\ UNCHANGED tvars

\* Lines 113-115: the skip signal.
Skip ==
  /\ pc = "loop" /\ LoopCondition
  /\ Classified.terminal = None
  /\ terminal' = None
  /\ current_token_idx' = Classified.idx + 1
  /\ UNCHANGED <<token_stream, production_sequence, stack, node_stack, tree, pc, queried, answer>>
  /\ UNCHANGED <<line_positions, error>>
  /\ UNCHANGED <<parses, source_code, report>>
  /\ UNCHANGED tvars

\* Lines 117-118: accept.
Accept ==
  /\ pc = "loop" /\ LoopCondition
  /\ Classified.terminal # None
  /\ Top(stack) = "$" /\ Classified.terminal = "$"
  /\ terminal' = Classified.terminal
  /\ current_token_idx' = Classified.idx
  /\ pc' = "accepted"
  /\ UNCHANGED <<token_stream, production_sequence, stack, node_stack, tree, queried, answer>>
  /\ UNCHANGED <<line_positions, error>>
  /\ UNCHANGED <<parses, source_code, report>>
  /\ UNCHANGED tvars

\* Faulty variant of Match: the `node_stack.pop()` of line 121 is replaced
\* by a read of the top.
Match_KeepNode ==
  /\ pc = "loop" /\ LoopCondition
  /\ Classified.terminal # None
  /\ ~(Top(stack) = "$" /\ Classified.terminal = "$")
  /\ Top(stack) = Classified.terminal
  /\ terminal' = Classified.terminal
  /\ tree' = [tree EXCEPT
                ![Top(node_stack)].token_type = TokenAt(token_stream, current_token_idx).type,
                ![Top(node_stack)].token_value = TokenAt(token_stream, current_token_idx).value]
  /\ node_stack' = node_stack
  /\ stack' = Pop(stack)
  /\ current_token_idx' = Classified.idx + 1
  /\ UNCHANGED <<token_stream, production_sequence, pc, queried, answer>>
  /\ UNCHANGED <<line_positions, error>>
  /\ UNCHANGED <<parses, source_code, report>>
  /\ UNCHANGED tvars

\* Lines 120-125: the top of the stack is the classified terminal.
Match ==
  /\ pc = "loop" /\ LoopCondition
  /\ Classified.terminal # None
  /\ ~(Top(stack) = "$" /\ Classified.terminal = "$")
  /\ Top(stack) = Classified.terminal
  /\ terminal' = Classified.terminal
  /\ tree' = [tree EXCEPT
                ![Top(node_stack)].token_type = TokenAt(token_stream, current_token_idx).type,
                ![Top(node_stack)].token_value = TokenAt(token_stream, current_token_idx).value]
  /\ node_stack' = Pop(node_stack)
  /\ stack' = Pop(stack)
  /\ current_token_idx' = Classified.idx + 1
  /\ UNCHANGED <<token_stream, production_sequence, pc, queried, answer>>
  /\ UNCHANGED <<line_positions, error>>
  /\ UNCHANGED <<parses, source_code, report>>
  /\ UNCHANGED tvars

\* Lines 126-128: the top is no non-terminal and differs from the terminal;
\* handle_syntax_error raises.
Mismatch ==
  /\ pc = "loop" /\ LoopCondition
  /\ Classified.terminal # None
  /\ ~(Top(stack) = "$" /\ Classified.terminal = "$")
  /\ Top(stack) # Classified.terminal
  /\ ~InGrammar(Top(stack))
  /\ terminal' = Classified.terminal
  /\ current_token_idx' = Classified.idx
  /\ pc' = "mismatch"
  /\ UNCHANGED <<token_stream, production_sequence, stack, node_stack, tree, queried, answer>>
  /\ error' = HandleSyntaxError(line_positions,
                                 TokenAt(token_stream, current_token_idx).value,
                                 {Top(stack)}, FALSE,
                                 TokenPosition(token_stream, current_token_idx))
  /\ UNCHANGED line_positions
  /\ UNCHANGED <<parses, source_code, report>>
  /\ UNCHANGED tvars

\* Line 130 raising in get_parse_table_entry (parser_tables.py:263-264):
\* the terminal is no column of the table.
UnknownTerminal ==
  /\ pc = "loop" /\ LoopCondition
  /\ Classified.terminal # None
  /\ Top(stack) # Classified.terminal
  /\ InGrammar(Top(stack))
  /\ Classified.terminal \notin Terminals
  /\ terminal' = Classified.terminal
  /\ current_token_idx' = Classified.idx
  /\ pc' = "unknown_terminal"
  /\ UNCHANGED <<token_stream, production_sequence, stack, node_stack, tree, queried, answer>>
  /\ error' = UnknownTerminalError
  /\ UNCHANGED line_positions
  /\ UNCHANGED <<parses, source_code, report>>
  /\ UNCHANGED tvars

\* Lines 130-135: the cell is empty; handle_syntax_error raises.
NoProduction ==
  /\ pc = "loop" /\ LoopCondition
  /\ Classified.terminal # None
  /\ Top(stack) # Classified.terminal
  /\ InGrammar(Top(stack))
  /\ Classified.terminal \in Terminals
  /\ GetParseTableEntry(Top(stack), Classified.terminal) = NoEntry
  /\ terminal' = Classified.terminal
  /\ current_token_idx' = Classified.idx
  /\ pc' = "no_production"
  /\ UNCHANGED <<token_stream, production_sequence, stack, node_stack, tree, queried, answer>>
  /\ error' = HandleSyntaxError(line_positions,
                                 TokenAt(token_stream, current_token_idx).value,
                                 GetParsingContext(Top(stack)), TRUE,
                                 TokenPosition(token_stream, current_token_idx))
  /\ UNCHANGED line_positions
  /\ UNCHANGED <<parses, source_code, report>>
  /\ UNCHANGED tvars

\* Faulty variant of TraceEntry: the production of the row's first filled
\* column is recorded instead of the one applied.
TraceEntry_FirstOfRow(top, production) ==
  [nt |-> top, body |-> Grammar[top][1]]

\* The entry appended to self.production_sequence (lines 137-140): the
\* string "<top> -> <production>", held as the pair of its two sides.
TraceEntry(top, production) ==
  [nt |-> top, body |-> IF production # <<EPS>> THEN production ELSE <<"epsilon">>]

\* The nodes lines 150-152 create under `parent`, in creation order.
ChildNodes(symbols, parent) ==
  [i \in 1..Len(symbols) |-> NewNode(Reverse(symbols)[i], parent)]

\* Lines 130-154: expansion of the non-terminal on top of the stack.
Expand ==
  /\ pc = "loop" /\ LoopCondition
  /\ Classified.terminal # None
  /\ Top(stack) # Classified.terminal
  /\ InGrammar(Top(stack))
  /\ Classified.terminal \in Terminals
  /\ LET production == GetParseTableEntry(Top(stack), Classified.terminal)
         current_node == Top(node_stack)
         n == Len(tree)
     IN
     /\ production # NoEntry
     /\ production_sequence' = Append(production_sequence, TraceEntry(Top(stack), production))
     /\ IF production = <<EPS>>
        THEN /\ tree' = Append([tree EXCEPT ![current_node].children = Append(@, n + 1)],
                               NewNode(EPS, current_node))
             /\ stack' = Pop(stack)
             /\ node_stack' = Pop(node_stack)
        ELSE /\ tree' = [tree EXCEPT ![current_node].children =
                           @ \o [i \in 1..Len(production) |-> n + i]]
                        \o ChildNodes(production, current_node)
             /\ stack' = Pop(stack) \o Reverse(production)
             /\ node_stack' = Pop(node_stack) \o [i \in 1..Len(production) |-> n + i]
  /\ terminal' = Classified.terminal
  /\ current_token_idx' = Classified.idx
  /\ UNCHANGED <<token_stream, pc, queried, answer>>
  /\ UNCHANGED <<line_positions, error>>
  /\ UNCHANGED <<parses, source_code, report>>
  /\ UNCHANGED tvars

\* The loop condition fails: line 156 returns the tree.
Exhausted ==
  /\ pc = "loop" /\ ~LoopCondition
  /\ pc' = "exhausted"
  /\ UNCHANGED <<token_stream, current_token_idx, production_sequence, stack, node_stack,
                 tree, terminal, queried, answer>>
  /\ UNCHANGED <<line_positions, error>>
  /\ UNCHANGED <<parses, source_code, report>>
  /\ UNCHANGED tvars

\* ---------------------------------------------------------------------
\* parse as a function of the token stream: what a call on a parser that
\* has never parsed leaves behind (lines 98-156 run from line 100).
\* ---------------------------------------------------------------------

\* Lines 100-106.
FreshState ==
  [idx |-> 0, trace |-> <<>>, tree |-> << NewNode("Start", 0) >>,
   stack |-> << "$", "Start" >>, node_stack |-> << 1 >>, pc |-> "loop"]

\* One evaluation of the loop condition and, if it holds, of the loop body
\* (lines 108-154).
LoopIteration(ts, st) ==
  IF ~(st.stack # <<>> /\ st.idx < Len(ts)) THEN [st EXCEPT !.pc = "exhausted"]
  ELSE
    LET c == GetTerminalSymbol(ts, st.idx)
        top == Top(st.stack)
        current_node == Top(st.node_stack)
        n == Len(st.tree)
    IN
    IF c.terminal = None THEN [st EXCEPT !.idx = c.idx + 1]
    ELSE IF top = "$" /\ c.terminal = "$" THEN [st EXCEPT !.idx = c.idx, !.pc = "accepted"]
    ELSE IF top = c.terminal THEN
      [st EXCEPT !.idx = c.idx + 1,
                 !.stack = Pop(@),
                 !.node_stack = Pop(@),
                 !.tree = [@ EXCEPT ![current_node].token_type = TokenAt(ts, st.idx).type,
                                    ![current_node].token_value = TokenAt(ts, st.idx).value]]
    ELSE IF ~InGrammar(top) THEN [st EXCEPT !.idx = c.idx, !.pc = "mismatch"]
    ELSE IF c.terminal \notin Terminals THEN [st EXCEPT !.idx = c.idx, !.pc = "unknown_terminal"]
    ELSE
      LET production == GetParseTableEntry(top, c.terminal)
      IN  IF production = NoEntry THEN [st EXCEPT !.idx = c.idx, !.pc = "no_production"]
          ELSE IF production = <<EPS>> THEN
            [st EXCEPT !.idx = c.idx,
                       !.trace = Append(@, TraceEntry(top, production)),
                       !.stack = Pop(@),
                       !.node_stack = Pop(@),
                       !.tree = Append([@ EXCEPT ![current_node].children = Append(@, n + 1)],
                                       NewNode(EPS, current_node))]
          ELSE
            [st EXCEPT !.idx = c.idx,
                       !.trace = Append(@, TraceEntry(top, production)),
                       !.stack = Pop(@) \o Reverse(production),
                       !.node_stack = Pop(@) \o [i \in 1..Len(production) |-> n + i],
                       !.tree = [@ EXCEPT ![current_node].children =
                                   @ \o [i \in 1..Len(production) |-> n + i]]
                                \o ChildNodes(production, current_node)]

RECURSIVE RunLoop(_, _)
RunLoop(ts, st) ==
  LET st2 == LoopIteration(ts, st)
  IN  IF st2.pc # "loop" THEN st2 ELSE RunLoop(ts, st2)

FreshParse(ts) == RunLoop(ts, FreshState)

\* What the instance and the caller hold of the running or finished parse.
ParseOutcome ==
  [idx |-> current_token_idx, trace |-> production_sequence, tree |-> tree,
   stack |-> stack, node_stack |-> node_stack, pc |-> pc]

\* The first parse of an instance, as the actions run it, ends where
\* FreshParse says.
FirstParseAgrees ==
  (parses = 1 /\ pc \notin {"loop", "idle"}) => ParseOutcome = FreshParse(token_stream)

\* =====================================================================
\* PredictiveParser.get_production_sequence (predictive_parser.py:168-193)
\* =====================================================================
RECURSIVE ProductionSequenceFrom(_, _, _, _)
ProductionSequenceFrom(ps, ts, i, include_handled) ==
  IF i > Len(ps) THEN <<>>
  ELSE IF ps[i].nt = "Start" THEN
    << [nt |-> "Start", body |-> <<"S", "N", "M">>] >>
    \o ProductionSequenceFrom(ps, ts, i + 1, include_handled)
  ELSE IF ps[i].nt = "S" /\ ts[1].value = "#include" THEN
    IF ~include_handled
    THEN << [nt |-> "S", body |-> <<"#include", "S">>] >>
         \o ProductionSequenceFrom(ps, ts, i + 1, TRUE)
    ELSE << [nt |-> "S", body |-> <<"epsilon">>] >>
         \o ProductionSequenceFrom(ps, ts, i + 1, include_handled)
  ELSE << ps[i] >> \o ProductionSequenceFrom(ps, ts, i + 1, include_handled)

GetProductionSequence == ProductionSequenceFrom(production_sequence, token_stream, 1, FALSE)

\* =====================================================================
\* TreeSearcher.find_identifier_definition (predictive_parser.py:328-382)
\* =====================================================================

\* The first of the children at the positions `hits`, 0 (None) when there is
\* none: next((child for child in ... if ...), None).
FirstAt(children, hits) ==
  IF hits = {} THEN 0
  ELSE children[CHOOSE i \in hits : \A j \in hits : i <= j]

\* Positions of the children that are identifier leaves with the queried literal.
QueriedAt(tr, children, identifier) ==
  { i \in 1..Len(children) :
      tr[children[i]].value = "identifier" /\ tr[children[i]].token_value = identifier }

\* Positions of the children with value 'Z'.
ZAt(tr, children) == { i \in 1..Len(children) : tr[children[i]].value = "Z" }

\* Positions of the children whose attached token is a reserved word.
ReservedAt(tr, children) ==
  { i \in 1..Len(children) : tr[children[i]].token_type = "reservedword" }

\* The `while current and current.value != 'Id'` walk of get_var_type.
RECURSIVE NearestId(_, _)
NearestId(tr, current) ==
  IF current = 0 THEN 0
  ELSE IF tr[current].value = "Id" THEN current
  ELSE NearestId(tr, tr[current].parent)

\* get_var_type (lines 330-339).
GetVarType(tr, node) ==
  LET current == NearestId(tr, node)
  IN  IF current # 0 /\ ReservedAt(tr, tr[current].children) # {}
      THEN tr[FirstAt(tr[current].children, ReservedAt(tr, tr[current].children))].token_value
      ELSE None

\* Faulty variant of ZChain: only the names that are direct children of L are
\* looked at.
ZChain_DirectOnly(tr, identifier, node, current) == None

\* The `while current and current.value == 'Z'` loop (lines 355-371), for
\* the L node `node`.
RECURSIVE ZChain(_, _, _, _)
ZChain(tr, identifier, node, current) ==
  IF current = 0 \/ tr[current].value # "Z" THEN None
  ELSE
    LET siblings == tr[tr[current].parent].children
        id_node == FirstAt(siblings, QueriedAt(tr, siblings, identifier))
        comma_list == FirstAt(tr[current].children, ZAt(tr, tr[current].children))
    IN  IF id_node # 0 /\ GetVarType(tr, node) # None THEN GetVarType(tr, node)
        ELSE IF comma_list # 0 THEN ZChain(tr, identifier, node, comma_list)
        ELSE None

\* The `if node.value == 'L'` block of dfs (lines 342-371).
CheckL(tr, identifier, node) ==
  LET z_node == FirstAt(tr[node].children, ZAt(tr, tr[node].children))
  IN  IF QueriedAt(tr, tr[node].children, identifier) # {} /\ GetVarType(tr, node) # None
      THEN GetVarType(tr, node)
      ELSE IF z_node # 0 THEN ZChain(tr, identifier, node, z_node)
      ELSE None

\* dfs (lines 341-379); DfsChildren is its `for child in node.children`.
RECURSIVE Dfs(_, _, _), DfsChildren(_, _, _, _)
Dfs(tr, identifier, node) ==
  LET inL == IF tr[node].value = "L" THEN CheckL(tr, identifier, node) ELSE None
  IN  IF inL # None THEN inL ELSE DfsChildren(tr, identifier, tr[node].children, 1)

DfsChildren(tr, identifier, children, i) ==
  IF i > Len(children) THEN None
  ELSE LET result == Dfs(tr, identifier, children[i])
       IN  IF result # None THEN result
           ELSE DfsChildren(tr, identifier, children, i + 1)

FindIdentifierDefinition(tr, identifier) ==
  LET result == Dfs(tr, identifier, 1)
  IN  IF result # None THEN result ELSE "Not found"

\* main.py:164-168: a query on the tree parse returned.
Query ==
  /\ pc \in {"accepted", "exhausted"}
  /\ queried = None
  /\ \E identifier \in QueryIds :
       /\ queried' = identifier
       /\ answer' = FindIdentifierDefinition(tree, identifier)
  /\ UNCHANGED <<token_stream, current_token_idx, production_sequence, stack, node_stack,
                 tree, terminal, pc>>
  /\ UNCHANGED <<line_positions, error>>
  /\ UNCHANGED <<parses, source_code, report>>
  /\ UNCHANGED tvars

\* Faulty variant of ParseAgain: the `self.production_sequence = []` of
\* line 102 is missing.
ParseAgain_KeepTrace ==
  /\ pc \in {"accepted", "exhausted", "mismatch", "unknown_terminal", "no_production"}
  /\ parses < MaxParses
  /\ parses' = parses + 1
  /\ token_stream' \in Programs
  /\ current_token_idx' = 0
  /\ production_sequence' = production_sequence
  /\ tree' = << NewNode("Start", 0) >>
  /\ stack' = << "$", "Start" >>
  /\ node_stack' = << 1 >>
  /\ terminal' = None
  /\ error' = NoError
  /\ pc' = "loop"
  /\ queried' = None
  /\ answer' = None
  /\ UNCHANGED <<line_positions, source_code, report>>
  /\ UNCHANGED tvars

\* The caller calls parse again on the same instance, after a parse that
\* returned or raised (lines 100-106); an earlier answer is dropped.
ParseAgain ==
  /\ pc \in {"accepted", "exhausted", "mismatch", "unknown_terminal", "no_production"}
  /\ parses < MaxParses
  /\ parses' = parses + 1
  /\ token_stream' \in Programs
  /\ current_token_idx' = 0
  /\ production_sequence' = <<>>
  /\ tree' = << NewNode("Start", 0) >>
  /\ stack' = << "$", "Start" >>
  /\ node_stack' = << 1 >>
  /\ terminal' = None
  /\ error' = NoError
  /\ pc' = "loop"
  /\ queried' = None
  /\ answer' = None
  /\ UNCHANGED <<line_positions, source_code, report>>
  /\ UNCHANGED tvars

Next ==
  \/ ParseAgain
  \/ Skip
  \/ Accept
  \/ Match
  \/ Mismatch
  \/ UnknownTerminal
  \/ NoProduction
  \/ Expand
  \/ Exhausted
  \/ Query

Spec == InitParse /\ [][Next]_vars

\* One iteration of the `while` loop of parse, or its exit.
ParseStep ==
  \/ Skip
  \/ Accept
  \/ Match
  \/ Mismatch
  \/ UnknownTerminal
  \/ NoProduction
  \/ Expand
  \/ Exhausted

\* parse is sequential code: a call that has been entered keeps running.
FairSpec == Spec /\ WF_vars(ParseStep)

\* =====================================================================
\* Declarations as the token stream states them
\* =====================================================================

\* The type keywords of Id -> int L | float L.
TypeKeywords == { RW("int"), RW("float") }

\* Symbols that cannot occur inside L, so that no declaration list extends
\* across them.
ListBreakers == { SY(";"), SY("{"), SY("}"), SY("("), SY(")") }

\* The position before i of the nearest type keyword or list breaker, 0 when
\* there is none.
Opener(ts, i) ==
  LET before == { j \in 1..(i - 1) : ts[j] \in TypeKeywords \cup ListBreakers }
  IN  IF before = {} THEN 0 ELSE CHOOSE j \in before : \A j2 \in before : j2 <= j

\* Token i is a declared name: an identifier right after a type keyword, or
\* right after a comma of a list that a type keyword opened.
DeclaredAt(ts, i) ==
  /\ i > 1
  /\ ts[i].type = "identifier"
  /\ \/ ts[i - 1] \in TypeKeywords
     \/ /\ ts[i - 1] = SY(",")
        /\ Opener(ts, i) # 0
        /\ ts[Opener(ts, i)] \in TypeKeywords

DeclPositions(ts, name) ==
  { i \in 1..Len(ts) : DeclaredAt(ts, i) /\ ts[i].value = name }

DeclType(ts, i) == ts[Opener(ts, i)].value

DeclaredTypes(ts, name) == { DeclType(ts, i) : i \in DeclPositions(ts, name) }

FirstDeclType(ts, name) ==
  DeclType(ts, CHOOSE i \in DeclPositions(ts, name) :
                 \A j \in DeclPositions(ts, name) : i <= j)

\* =====================================================================
\* Claims about the parse and the declared-type query (Spec)
\* =====================================================================

\* C1: parsing the token stream of the reference program reaches the accept
\* state without an error, the production trace is non-empty and begins with
\* Start -> S N M, and the declared-type query for `s` on the tree is `int`.
C1_ReferenceProgramParses ==
  (token_stream = ReferenceProgram /\ pc # "loop") =>
    /\ pc = "accepted"
    /\ GetProductionSequence # <<>>
    /\ GetProductionSequence[1] = [nt |-> "Start", body |-> <<"S", "N", "M">>]
    /\ FindIdentifierDefinition(tree, "s") = "int"

\* C8: for an identifier declared in more than one int/float declaration of
\* an accepted program, the query answers the type keyword of the declaration
\* that is first in source order.
C8_FirstDeclarationWins ==
  (/\ pc = "accepted"
   /\ queried # None
   /\ Cardinality(DeclPositions(token_stream, queried)) > 1)
  => answer = FirstDeclType(token_stream, queried)

\* C9: on an accepted parse the query answers "Not found" for every
\* identifier that is no declared name of an int/float declaration (never
\* occurring, only assigned, or only inside expressions), and answers the
\* type keyword of one of its declarations (int or float) for every declared
\* name, first or later in a comma-separated list.
C9_QueryMatchesDeclarations ==
  (pc = "accepted" /\ queried # None) =>
    IF DeclaredTypes(token_stream, queried) = {}
    THEN answer = "Not found"
    ELSE answer \in DeclaredTypes(token_stream, queried) /\ answer \in {"int", "float"}

\* A later name of a comma-separated list was queried and its list's type
\* answered.
C9_Witness ==
  /\ pc = "accepted"
  /\ queried = "x"
  /\ answer = "int"
  /\ \E i \in DeclPositions(token_stream, "x") : token_stream[i - 1] = SY(",")
  /\ \A i \in DeclPositions(token_stream, "x") : token_stream[i - 1] = SY(",")

\* C10: a step taken with the cursor on the symbol `#` followed by the
\* reserved word `include` classifies `#include` and advances the cursor
\* by 2; with `#` followed by anything else the step is a skip.
C10_HashIncludeMerged ==
  [][ (/\ pc = "loop"
       /\ LoopCondition
       /\ TokenAt(token_stream, current_token_idx) = SY("#"))
      => IF /\ current_token_idx + 1 < Len(token_stream)
            /\ TokenAt(token_stream, current_token_idx + 1) = RW("include")
         THEN terminal' = "#include" /\ current_token_idx' = current_token_idx + 2
         ELSE terminal' = None /\ current_token_idx' = current_token_idx + 1 ]_vars

\* =====================================================================
\* Claims about classification and errors (Spec)
\* =====================================================================

\* The cursor is on `<`, followed by `iostream` or an identifier, followed
\* by `>`.
AtLibName(ts, idx) ==
  /\ idx + 2 < Len(ts)
  /\ TokenAt(ts, idx) = SY("<")
  /\ \/ TokenAt(ts, idx + 1).value = "iostream"
     \/ TokenAt(ts, idx + 1).type = "identifier"
  /\ TokenAt(ts, idx + 2) = SY(">")

\* C11: a step taken with the cursor on `<` name `>` is a skip: no terminal
\* reaches the engine, the cursor advances by 3 and neither stack changes,
\* at every cursor position.
C11_LibNameSkipped ==
  [][ (pc = "loop" /\ LoopCondition /\ AtLibName(token_stream, current_token_idx))
      => /\ terminal' = None
         /\ current_token_idx' = current_token_idx + 3
         /\ pc' = "loop"
         /\ UNCHANGED <<stack, node_stack>> ]_vars

\* C12: every fatal parse error (terminal mismatch or missing table entry)
\* is a syntax diagnostic with a line number >= 1 and a column number >= 1.
C12_ErrorsAreLocatedDiagnostics ==
  pc \in {"mismatch", "no_production"} =>
    /\ error.kind = "SyntaxError"
    /\ error.located
    /\ error.line >= 1
    /\ error.column >= 1

\* C13: when the parse ends on a non-terminal A with no production for the
\* classified terminal, column of the table or not, the error is a syntax
\* error expecting exactly the terminals u with table[A][u] non-empty.
C13_ExpectationSetOfNonTerminal ==
  pc \in {"no_production", "unknown_terminal"} =>
    /\ error.kind = "SyntaxError"
    /\ error.expected = { u \in Terminals : GetParseTableEntry(Top(stack), u) # NoEntry }

\* C14: a terminal on top of the stack that differs from the classified
\* terminal stops the parse in that step with an unexpected-token error
\* naming the stack top as expected; afterwards no token is consumed, no
\* stack changes and no trace entry is appended.
C14_MismatchNamesStackTop ==
  /\ [](pc = "mismatch" =>
          /\ error.kind = "SyntaxError"
          /\ error.message = "Expected, found"
          /\ error.expected = {Top(stack)})
  /\ [][(pc = "mismatch" /\ parses' = parses) =>
          UNCHANGED <<pc, current_token_idx, stack, node_stack, production_sequence>>]_vars

\* C15: when the loop ends on an exhausted token stream with a non-empty
\* stack whose top is not `$`, parse raises an error positioned at the last
\* consumed token instead of returning the tree.
C15_ExhaustionIsAnError ==
  (pc = "exhausted" /\ stack # <<>> /\ Top(stack) # "$") =>
    /\ error.kind = "SyntaxError"
    /\ error.located
    /\ current_token_idx > 0
         => error.position = TokenPosition(token_stream, current_token_idx - 1)

\* C16: a fatal parse error is positioned at the token under the cursor,
\* the first token neither matched nor skipped; for the reference program
\* without the `;` after `int x` that is the token following `x`.
C16_ErrorAtTokenUnderCursor ==
  /\ pc \in {"mismatch", "no_production", "unknown_terminal"} =>
       /\ error.located
       /\ error.position = TokenPosition(token_stream, current_token_idx)
  /\ (token_stream = ReferenceMissingSemicolon /\ pc # "loop") =>
       /\ pc \in {"mismatch", "no_production"}
       /\ current_token_idx = 15

\* C17: get_production_sequence returns the table lookups performed: one
\* entry per expansion, in order, each naming the non-terminal and the body
\* (or `epsilon`) applied, also for streams with several `#include` tokens.
C17_TraceIsTheLookups ==
  GetProductionSequence = production_sequence

\* The values of the children of node n, in the order of its children list.
ChildValues(tr, n) == [i \in 1..Len(tr[n].children) |-> tr[tr[n].children[i]].value]

\* The bodies of the productions of a non-terminal.
BodiesOf(g, nt) == { g[nt][j] : j \in 1..Len(g[nt]) }

\* C18: the children of an expanded node, read in the order of its children
\* list, are the symbols X1 .. Xn of a production of the node's non-terminal
\* in production order; an epsilon expansion gives exactly one child, with
\* value epsilon.
C18_ChildrenInProductionOrder ==
  \A n \in 1..Len(tree) :
    tree[n].children # <<>> => ChildValues(tree, n) \in BodiesOf(Grammar, tree[n].value)

\* C19: every symbol in the body of a production of the shipped grammar is a
\* declared non-terminal, the epsilon marker or a member of the terminal
\* set, which also holds identifier, number, string and `$`.
C19_GrammarSymbolsDeclared ==
  gid = "fixed" =>
    /\ \A nt \in DOMAIN GrammarOf(gid) : \A body \in BodiesOf(GrammarOf(gid), nt) :
         \A i \in 1..Len(body) : body[i] \in NonTerminals \cup {EPS} \cup Terminals
    /\ {"identifier", "number", "string", "$"} \subseteq Terminals

\* C20: for every token stream parse ends after finitely many steps (it
\* accepts, raises its first error or exhausts the stream), and no step
\* of a parse decreases the cursor.
C20_ParseTerminates ==
  /\ <>(pc # "loop")
  /\ [][parses' = parses => current_token_idx' >= current_token_idx]_vars

\* A parse with expansions, epsilon expansions and matches has ended in accept.
C20_Witness ==
  /\ pc = "accepted"
  /\ token_stream = ReferenceNoReturn
  /\ current_token_idx = Len(token_stream) - 1
  /\ \E i \in 1..Len(production_sequence) : production_sequence[i].body = <<"epsilon">>

\* =====================================================================
\* Claims about the stacks, the cursor and the accepted parse (Spec)
\* =====================================================================

\* C22 as stated: at every step, from the initial state on, the symbol stack
\* and the node stack have the same depth, and a step pops both or neither.
C22_StackDepthsEqual ==
  /\ [](Len(stack) = Len(node_stack))
  /\ [][Len(stack') + Len(node_stack) = Len(stack) + Len(node_stack')]_vars

\* C22 amended: at every step the symbol stack is exactly one deeper than
\* the node stack (the `$` at its bottom has no node), and every step changes
\* both depths by the same amount, so a pop of one is a pop of the other.
C22_StackOneDeeperThanNodeStack ==
  /\ [](Len(stack) = Len(node_stack) + 1)
  /\ [][Len(stack') + Len(node_stack) = Len(stack) + Len(node_stack')]_vars

\* Both stacks have been popped by a match and hold pending symbols.
C22_Witness ==
  /\ pc = "loop"
  /\ terminal = "main"
  /\ Len(stack) > 3
  /\ Len(stack) = Len(node_stack) + 1
  /\ \E n \in 1..Len(tree) : tree[n].token_value = "main"

\* C23: at every step the k-th node from the top of the node stack has as
\* value the k-th symbol from the top of the symbol stack, for every k up to
\* the node-stack depth; after expanding A -> X1 .. Xn the top of the symbol
\* stack is X1 and the entries below the popped A are unchanged.
C23_StacksAligned ==
  /\ [](\A j \in 1..Len(node_stack) :
          j <= Len(stack) =>
            tree[node_stack[Len(node_stack) + 1 - j]].value = stack[Len(stack) + 1 - j])
  /\ [][Len(production_sequence') > Len(production_sequence) =>
          LET applied == production_sequence'[Len(production_sequence')]
          IN  /\ applied.nt = Top(stack)
              /\ SubSeq(stack', 1, Len(stack) - 1) = Pop(stack)
              /\ IF applied.body = <<"epsilon">>
                 THEN stack' = Pop(stack)
                 ELSE /\ Len(stack') = Len(stack) - 1 + Len(applied.body)
                      /\ Top(stack') = applied.body[1]]_vars

\* M -> int main ( ) { T V } has just been expanded: `int` is on top of both.
C23_Witness ==
  /\ pc = "loop"
  /\ production_sequence # <<>>
  /\ production_sequence[Len(production_sequence)].nt = "M"
  /\ Top(stack) = "int"
  /\ tree[Top(node_stack)].value = "int"
  /\ Len(node_stack) >= 8

\* C27: an expansion step leaves the cursor unchanged and the cursor moves
\* only in a match or a skip, also when the token at the cursor starts a
\* lookahead merge; classifying again at the unchanged cursor gives the
\* terminal the step was taken on.
C27_ExpansionKeepsCursor ==
  [][ /\ Len(production_sequence') > Len(production_sequence) =>
           /\ current_token_idx' = current_token_idx
           /\ GetTerminalSymbol(token_stream, current_token_idx').terminal = terminal'
      /\ (parses' = parses /\ current_token_idx' # current_token_idx) =>
           \/ (stack' = Pop(stack) /\ node_stack' = Pop(node_stack) /\ Top(stack) = terminal')
           \/ (terminal' = None /\ UNCHANGED <<stack, node_stack>>) ]_vars

\* The terminal symbols of the production bodies of the shipped grammar.
BodyTerminals ==
  UNION { { body[i] : i \in 1..Len(body) } :
            body \in UNION { BodiesOf(Grammar, nt) : nt \in DOMAIN Grammar } }
  \ (NonTerminals \cup {EPS})

\* C28: for every terminal symbol X of a production body some token is
\* classified as X, so a pending X can be popped; the number token `0` is
\* matched against the `0` pending after `return`.
C28_PendingTerminalsMatchable ==
  /\ \A X \in BodyTerminals :
       \E tok \in LexerTokens : GetTerminalSymbol(<<EndToken, tok, EndToken>>, 1).terminal = X
  /\ ~(pc = "mismatch" /\ Top(stack) = "0"
       /\ TokenAt(token_stream, current_token_idx) = NUM("0"))

\* The terminals matched by the parse of a stream that was consumed up to its
\* `$`: the classifications of its tokens, skipped ones left out.
RECURSIVE ConsumedTerminals(_, _)
ConsumedTerminals(ts, i) ==
  IF i >= Len(ts) THEN <<>>
  ELSE LET c == GetTerminalSymbol(ts, i)
       IN  IF c.terminal = None THEN ConsumedTerminals(ts, c.idx + 1)
           ELSE IF c.terminal = "$" THEN <<>>
           ELSE <<c.terminal>> \o ConsumedTerminals(ts, c.idx + 1)

\* The position of the leftmost non-terminal of a sentential form, 0 if none.
LeftmostNonTerminal(form) ==
  LET at == { i \in 1..Len(form) : form[i] \in NonTerminals }
  IN  IF at = {} THEN 0 ELSE CHOOSE i \in at : \A j \in at : i <= j

\* The sentential form the trace derives from `form`, each entry rewriting
\* the leftmost non-terminal; <<"?">> when an entry names another one.
RECURSIVE Replay(_, _, _)
Replay(trace, i, form) ==
  IF i > Len(trace) THEN form
  ELSE LET at == LeftmostNonTerminal(form)
       IN  IF at = 0 \/ form[at] # trace[i].nt THEN <<"?">>
           ELSE Replay(trace, i + 1,
                       SubSeq(form, 1, at - 1)
                       \o (IF trace[i].body = <<"epsilon">> THEN <<>> ELSE trace[i].body)
                       \o SubSeq(form, at + 1, Len(form)))

\* C29: when parse accepts, the node stack is empty, every terminal leaf of
\* the tree has a token attached, and the raw trace replayed as a leftmost
\* derivation from Start yields the matched terminals in consumption order.
C29_AcceptedTraceDerivesInput ==
  pc = "accepted" =>
    /\ node_stack = <<>>
    /\ \A n \in 1..Len(tree) :
         (tree[n].children = <<>> /\ tree[n].value # EPS) =>
            /\ tree[n].token_type # None
            /\ tree[n].token_value # None
    /\ Replay(production_sequence, 1, <<"Start">>) = ConsumedTerminals(token_stream, 0)

\* A program with a loop, input, output and declarations was accepted.
C29_Witness ==
  /\ pc = "accepted"
  /\ token_stream = ReferenceNoReturn
  /\ node_stack = <<>>
  /\ Len(Replay(production_sequence, 1, <<"Start">>)) = Len(token_stream) - 1

\* =====================================================================
\* Claims about the fixed-point loops (FairSpecTables)
\* =====================================================================

\* C24: within the FIRST loop and within the FOLLOW loop no step removes an
\* element from a set; inside a pass `changed` becomes true exactly when a
\* step makes a set grow; the loop is left exactly at the end of a pass whose
\* `changed` is still false, and both loops are left after finitely many
\* steps.
C24_FixedPointsMonotoneAndTerminate ==
  /\ [][(phase = "first" /\ phase' = "first") =>
          \A nt \in DOMAIN first_sets : first_sets[nt] \subseteq first_sets'[nt]]_vars
  /\ [][(phase = "follow" /\ phase' = "follow") =>
          \A nt \in DOMAIN follow_sets : follow_sets[nt] \subseteq follow_sets'[nt]]_vars
  /\ [][(phase \in {"first", "follow"} /\ phase' = phase /\ k >= 1) =>
          changed' = (changed \/ first_sets' # first_sets \/ follow_sets' # follow_sets)]_vars
  /\ [][(phase \in {"first", "follow"} /\ k = 0 /\ ~changed) => phase' # phase]_vars
  /\ [][(phase \in {"first", "follow"} /\ phase' # phase) => (k = 0 /\ ~changed)]_vars
  /\ (phase \in {"first", "follow"}) ~> (phase = "table")

\* A FOLLOW pass has ended in which no set grew.
C24_Witness ==
  /\ phase = "follow"
  /\ k = 0
  /\ ~changed
  /\ follow_sets["T"] # {}
  /\ first_sets["T"] # {}

\* =====================================================================
\* ErrorHandler on its own (predictive_parser.py:195-268): the caller
\* initialises it with a source text (check_syntax does, line 284) and asks
\* it to locate offsets and to render errors.
\* =====================================================================

\* Source texts: an ordinary character and the line break.
Chars == { "x", "\n" }

Sources == UNION { [1..n -> Chars] : n \in 0..MaxSrcLen }

\* initialize_source, the loop of lines 207-209 from 0-based index i on.
RECURSIVE LinePositionsFrom(_, _, _)
LinePositionsFrom(src, i, lp) ==
  IF i = Len(src) THEN lp
  ELSE LinePositionsFrom(src, i + 1,
                         IF src[i + 1] = "\n" THEN Append(lp, i + 1) ELSE lp)

\* initialize_source (lines 202-209): the new self.line_positions.
LinePositionsOf(src) == LinePositionsFrom(src, 0, << 0 >>)

\* str.rstrip('\n').
RECURSIVE RStripNewlines(_)
RStripNewlines(text) ==
  IF text # <<>> /\ text[Len(text)] = "\n"
  THEN RStripNewlines(SubSeq(text, 1, Len(text) - 1))
  ELSE text

\* get_line_content (lines 224-234).
GetLineContent(src, lp, line_number) ==
  IF line_number < 1 \/ line_number > Len(lp) THEN <<>>
  ELSE LET start == lp[line_number]
           end == IF line_number < Len(lp) THEN lp[line_number + 1] ELSE Len(src)
       IN  RStripNewlines(SubSeq(src, start + 1, end))

Spaces(n) == [j \in 1..n |-> " "]

DecimalDigits == << "0", "1", "2", "3", "4", "5", "6", "7", "8", "9" >>

RECURSIVE Decimal(_)
Decimal(i) ==
  IF i < 10 THEN << DecimalDigits[i + 1] >>
  ELSE Decimal(i \div 10) \o << DecimalDigits[(i % 10) + 1] >>

\* The format field {i:4d} of line 264.
FormatLineNumber(i) ==
  LET d == Decimal(i)
  IN  Spaces(IF Len(d) < 4 THEN 4 - Len(d) ELSE 0) \o d

\* f"{prefix}{i:4d} | {line_text}" (lines 262-264).
ContextLine(src, lp, i, line_number) ==
  (IF i = line_number THEN << "-", ">", " " >> ELSE Spaces(3))
  \o FormatLineNumber(i) \o << " ", "|", " " >> \o GetLineContent(src, lp, i)

\* "      " + " " * (column - 1) + "^" (line 266).
CaretLine(column) == Spaces(6) \o Spaces(column - 1) \o << "^" >>

\* The loop of lines 261-266 from line i to line end_line.
RECURSIVE ContextFrom(_, _, _, _, _, _)
ContextFrom(src, lp, i, end_line, line_number, column) ==
  IF i > end_line THEN <<>>
  ELSE << ContextLine(src, lp, i, line_number) >>
       \o (IF i = line_number THEN << CaretLine(column) >> ELSE <<>>)
       \o ContextFrom(src, lp, i + 1, end_line, line_number, column)

\* format_error (lines 246-268): the lines after "Context:", or the
\* IndexError of get_column_number.
FormatError(src, lp, position) ==
  IF ColumnIndexError(lp, position)
  THEN [call |-> "format_error", kind |-> "IndexError", position |-> position,
        line |-> 0, column |-> 0, context |-> <<>>]
  ELSE LET line_number == GetLineNumber(lp, position)
           column == GetColumnNumber(lp, position)
           start_line == IF line_number - 2 > 1 THEN line_number - 2 ELSE 1
           end_line == IF Len(lp) < line_number + 2 THEN Len(lp) ELSE line_number + 2
       IN  [call |-> "format_error", kind |-> "str", position |-> position,
            line |-> line_number, column |-> column,
            context |-> ContextFrom(src, lp, start_line, end_line, line_number, column)]

\* get_line_number followed by get_column_number for one offset.
LineAndColumn(lp, position) ==
  IF ColumnIndexError(lp, position)
  THEN [call |-> "get_column_number", kind |-> "IndexError", position |-> position,
        line |-> GetLineNumber(lp, position), column |-> 0, context |-> <<>>]
  ELSE [call |-> "get_column_number", kind |-> "int", position |-> position,
        line |-> GetLineNumber(lp, position),
        column |-> GetColumnNumber(lp, position), context |-> <<>>]

InitializeSource ==
  /\ \E src \in Sources :
       /\ source_code' = src
       /\ line_positions' = LinePositionsOf(src)
  /\ report' = [call |-> "initialize_source"]
  /\ UNCHANGED <<token_stream, current_token_idx, production_sequence, stack,
                 node_stack, tree, terminal, pc, error, parses, queried, answer>>
  /\ UNCHANGED tvars

GetLineAndColumn ==
  /\ \E position \in 0..Len(source_code) :
       report' = LineAndColumn(line_positions, position)
  /\ UNCHANGED <<line_positions, source_code>>
  /\ UNCHANGED <<token_stream, current_token_idx, production_sequence, stack,
                 node_stack, tree, terminal, pc, error, parses, queried, answer>>
  /\ UNCHANGED tvars

FormatErrorCall ==
  /\ \E position \in 0..Len(source_code) :
       report' = FormatError(source_code, line_positions, position)
  /\ UNCHANGED <<line_positions, source_code>>
  /\ UNCHANGED <<token_stream, current_token_idx, production_sequence, stack,
                 node_stack, tree, terminal, pc, error, parses, queried, answer>>
  /\ UNCHANGED tvars

NextErrorHandler ==
  \/ InitializeSource
  \/ GetLineAndColumn
  \/ FormatErrorCall

SpecErrorHandler == InitTables /\ [][NextErrorHandler]_vars

\* =====================================================================
\* Claims about the ErrorHandler (SpecErrorHandler)
\* =====================================================================

\* The offsets at which a line of the text starts: 0 and the offset after
\* every line break.
LineStarts(src) == {0} \cup { i \in 1..Len(src) : src[i] = "\n" }

GreatestLineStart(src, p) ==
  CHOOSE s \in LineStarts(src) : s <= p /\ \A t \in LineStarts(src) : t <= p => t <= s

\* C25: after initialize_source(src), for every offset p in 0..len(src) the
\* line number is the 1-based index of the greatest line start at or before
\* p, the column is p minus that line start plus 1, and so
\* line_start(line) + column - 1 = p.
C25_LineColumnOfOffset ==
  (report.call = "get_column_number" /\ Len(line_positions) > 0) =>
    LET p == report.position
        start == GreatestLineStart(source_code, p)
    IN  /\ report.kind = "int"
        /\ report.line = Cardinality({ s \in LineStarts(source_code) : s <= p })
        /\ line_positions[report.line] = start
        /\ report.column = p - start + 1
        /\ line_positions[report.line] + report.column - 1 = p

\* An offset on the third line of a text, past the start of that line, has
\* been located.
C25_Witness ==
  /\ report.call = "get_column_number"
  /\ Len(line_positions) > 0
  /\ report.line = 3
  /\ report.column = 2

\* The context of a rendered error shows the lines max(1, L-2) .. min(N, L+2)
\* in order, with the caret line after line L.
ContextWindowShown ==
  (report.call = "format_error" /\ report.kind = "str") =>
    LET L == report.line
        N == Len(line_positions)
        lo == IF L - 2 > 1 THEN L - 2 ELSE 1
        hi == IF N < L + 2 THEN N ELSE L + 2
        shown == [j \in 1..(hi - lo + 1) |->
                    report.context[IF lo + j - 1 <= L THEN j ELSE j + 1]]
    IN  /\ Len(report.context) = hi - lo + 2
        /\ \A j \in 1..(hi - lo + 1) :
             LET text == GetLineContent(source_code, line_positions, lo + j - 1)
                 number == Decimal(lo + j - 1)
                 row == shown[j]
             IN  /\ Len(row) >= Len(text) + Len(number)
                 /\ SubSeq(row, Len(row) - Len(text) + 1, Len(row)) = text
                 /\ \E b \in 1..(Len(row) - Len(text)) :
                      SubSeq(row, b, b + Len(number) - 1) = number

\* C26: in a rendered error context the caret is under the offending
\* column: its offset in the caret line equals the offset, in the context
\* line just above it, of the source character at the error column; and the
\* context shows exactly the lines max(1, L-2) .. min(N, L+2).
C26_CaretUnderOffendingColumn ==
  (report.call = "format_error" /\ report.kind = "str") =>
    LET L == report.line
        lo == IF L - 2 > 1 THEN L - 2 ELSE 1
        above == report.context[L - lo + 1]
        caret == report.context[L - lo + 2]
        text == GetLineContent(source_code, line_positions, L)
    IN  /\ ContextWindowShown
        /\ caret[Len(caret)] = "^"
        /\ \A j \in 1..(Len(caret) - 1) : caret[j] = " "
        /\ Len(caret) - 1 = (Len(above) - Len(text)) + (report.column - 1)

\* =====================================================================
\* Claims about repeated parses (Spec)
\* =====================================================================

\* C21: a parse of stream B on an instance that has parsed before (to
\* success or to an error) ends with the tree, the raw trace, the cursor and
\* the outcome of a parse of B on a fresh parser; nothing of the earlier
\* parse is in them.
C21_RepeatedParsesIndependent ==
  (parses > 1 /\ pc # "loop") => ParseOutcome = FreshParse(token_stream)

\* A second parse on the instance has been accepted with a non-empty trace.
C21_Witness ==
  /\ parses = 2
  /\ pc = "accepted"
  /\ Len(production_sequence) > 5
  /\ Len(tree) > 10

====
